---- MODULE Spec2Model ----
(***************************************************************************)
(* Async Task Processor API: the task store (app/db.py), the API gateway   *)
(* (app/main.py) and the Celery task heavy_computation_task (app/tasks.py) *)
(* as a state machine.                                                     *)
(*                                                                         *)
(* A nullable column is a sequence: <<>> is NULL, <<v>> holds v.           *)
(* datetime.utcnow() is a logical clock kept per row: now[task_id] is the   *)
(* number of writes the row has received, so the timestamps of one row     *)
(* increase strictly from write to write. Timestamps of different rows are *)
(* not comparable.                                                         *)
(*                                                                         *)
(* The broker's queue and the pool of running invocations are bags: two    *)
(* equal messages are two messages, and two invocations at the same place  *)
(* of the task function with the same arguments are two invocations. The   *)
(* handlers of POST /process in flight form a set, one per task id.        *)
(* countdown=60 of self.retry is left out: the model has no time, a        *)
(* published retry can be taken at any later step.                         *)
(***************************************************************************)
EXTENDS Integers, Sequences, FiniteSets, Bags, TLC

VARIABLES tasks, now, queue, running, api, response,
          allocated, returned, attempts, failures, outcome, redeliveries

vars == <<tasks, now, queue, running, api, response,
          allocated, returned, attempts, failures, outcome, redeliveries>>

\* What the program does not keep: the ids Submit allocated and returned, the
\* invocations of the task function started per task, those that entered the
\* except block, the way the last invocation that ended left the task
\* function ("return", "Retry" for the
\* Retry exception self.retry raises, "raise" for any other exception), and
\* the number of messages the broker has delivered a second time.
history == <<allocated, returned, attempts, failures, outcome, redeliveries>>

\* The messages in the queue and the invocations in the pool, without their
\* multiplicities.
Messages == BagToSet(queue)

Invocations == BagToSet(running)

Put(bag, e) == bag (+) SetToBag({e})

Take(bag, e) == bag (-) SetToBag({e})

(* ------------------------------ bounds --------------------------------- *)

\* Size of the pool uuid.uuid4() draws task ids from.
NumTaskIds == 2

\* Size of the Celery worker pool.
NumWorkers == 2

\* Messages the broker delivers a second time.
MaxRedeliveries == 1

\* Number of values of hash(str(data)) % 1000 the model draws from.
NumHashVals == 2

TaskIds == 1..NumTaskIds

\* The data of the request bodies of POST /process the model submits: a
\* non-empty dict, for which the result depends on the worker's hash salt.
DataVals == {"{'x': 1}"}

(* ------------------------- program constants --------------------------- *)

\* self.retry(..., max_retries=3)
max_retries == 3

\* sum(range(1000000)) = 499999500000, which exceeds TLC's
\* 32-bit integers: a result is kept as two base-10^6 digits, hi * 10^6 + lo.
SumRangeHi == 499999

SumRangeLo == 500000

\* hash(str(data)) % 1000
HashMod == 1000

\* hash(str(data)) % HashMod is any of 0..HashMod - 1: str hashing is salted
\* per process, so the value is not a function of data across workers. The
\* model draws from NumHashVals of these values, 0 and the largest ones.
HashVals == {0} \cup {HashMod - k : k \in 1..(NumHashVals - 1)}

\* str(exc) of what an attempt can raise: update_state failing while the
\* progress loop runs, and save_result failing on the store.
ProgressError == "update_state failed"

StoreError == "store write failed"

(* ------------------------------ store ---------------------------------- *)

NULL == <<>>

Some(v) == <<v>>

\* No row with that primary key.
NoRow == [task_id |-> 0]

TERMINAL == {"completed", "failed"}

\* create_task with completed_at stamped at creation.
create_task_stamped(db, task_id, t) ==
    IF db[task_id] # NoRow THEN db
    ELSE [db EXCEPT ![task_id] =
            [task_id |-> task_id, status |-> "pending", result |-> NULL,
             error_message |-> NULL, created_at |-> Some(t), completed_at |-> Some(t)]]

\* create_task: INSERT (task_id, status='pending', created_at=utcnow());
\* the other columns take their NULL default. task_id is the primary key: on
\* an id that has a row the INSERT raises and the transaction is rolled back,
\* which leaves the store as it was.
create_task(db, task_id, t) ==
    IF db[task_id] # NoRow THEN db
    ELSE [db EXCEPT ![task_id] =
            [task_id |-> task_id, status |-> "pending", result |-> NULL,
             error_message |-> NULL, created_at |-> Some(t), completed_at |-> NULL]]

\* save_result with result left out of the SET list.
save_result_no_result(db, task_id, result, t) ==
    IF db[task_id] = NoRow THEN db
    ELSE [db EXCEPT ![task_id].status = "completed",
                    ![task_id].completed_at = Some(t)]

\* save_result with status left out of the SET list.
save_result_no_status(db, task_id, result, t) ==
    IF db[task_id] = NoRow THEN db
    ELSE [db EXCEPT ![task_id].result = Some(result),
                    ![task_id].completed_at = Some(t)]

\* save_result: UPDATE ... WHERE task_id = :id SET result, status, completed_at.
\* An UPDATE whose WHERE matches no row changes nothing.
save_result(db, task_id, result, t) ==
    IF db[task_id] = NoRow THEN db
    ELSE [db EXCEPT ![task_id].result = Some(result),
                    ![task_id].status = "completed",
                    ![task_id].completed_at = Some(t)]

\* mark_task_failed that also sets created_at, as an upsert would.
mark_task_failed_restamp(db, task_id, error_message, t) ==
    IF db[task_id] = NoRow THEN db
    ELSE [db EXCEPT ![task_id].status = "failed",
                    ![task_id].error_message = Some(error_message),
                    ![task_id].created_at = Some(t),
                    ![task_id].completed_at = Some(t)]

\* mark_task_failed that writes nothing.
mark_task_failed_noop(db, task_id, error_message, t) == db

\* mark_task_failed with error_message left out of the SET list.
mark_task_failed_no_message(db, task_id, error_message, t) ==
    IF db[task_id] = NoRow THEN db
    ELSE [db EXCEPT ![task_id].status = "failed",
                    ![task_id].completed_at = Some(t)]

\* mark_task_failed with completed_at left out of the SET list.
mark_task_failed_no_stamp(db, task_id, error_message, t) ==
    IF db[task_id] = NoRow THEN db
    ELSE [db EXCEPT ![task_id].status = "failed",
                    ![task_id].error_message = Some(error_message)]

\* mark_task_failed: UPDATE ... WHERE task_id = :id SET status, error_message,
\* completed_at.
mark_task_failed(db, task_id, error_message, t) ==
    IF db[task_id] = NoRow THEN db
    ELSE [db EXCEPT ![task_id].status = "failed",
                    ![task_id].error_message = Some(error_message),
                    ![task_id].completed_at = Some(t)]

\* get_task that answers a pending row for an id it does not find.
get_task_or_default(db, task_id) ==
    IF db[task_id] = NoRow
    THEN [task_id |-> task_id, status |-> "pending", result |-> NULL,
          error_message |-> NULL, created_at |-> NULL, completed_at |-> NULL]
    ELSE db[task_id]

\* get_task: SELECT ... WHERE task_id = :id; the row as a dict, or None.
get_task(db, task_id) == db[task_id]

(* ------------------------------ gateway -------------------------------- *)

\* Every response carries the request it answers: request is the {task_id} of
\* GET /results/{task_id}, and 0 for POST /process.
NoResponse == [request |-> 0, code |-> 0]

\* get_task_status: 404 when get_task returns None, else the row's fields.
get_task_status(db, task_id) ==
    LET task == get_task(db, task_id) IN
    IF task = NoRow
    THEN [request |-> task_id, code |-> 404, detail |-> "Task not found"]
    ELSE [request |-> task_id, code |-> 200, task_id |-> task.task_id, status |-> task.status,
          result |-> task.result, error_message |-> task.error_message,
          created_at |-> task.created_at, completed_at |-> task.completed_at]

\* The TaskResponse process_task returns.
TaskResponse(task_id) ==
    [request |-> 0, code |-> 200, task_id |-> task_id, status |-> "pending",
     message |-> "Task queued for processing"]

\* An unhandled exception in the handler of POST /process.
ServerError == [request |-> 0, code |-> 500]

\* An unhandled exception in the handler of GET /results/{task_id}.
QueryServerError(task_id) == [request |-> task_id, code |-> 500]

\* No handler of POST /process is in flight.
ApiIdle == {}

(* ------------------------------ worker --------------------------------- *)

\* result = sum(range(1000000)); if data: result += hash(str(data)) % 1000.
\* None and the empty dict are falsy. lo + h stays below 10^6, so there is
\* no carry.
Falsy == {"None", "{}"}

ComputeResult(data, h) ==
    IF data \in Falsy
    THEN [hi |-> SumRangeHi, lo |-> SumRangeLo]
    ELSE [hi |-> SumRangeHi, lo |-> SumRangeLo + h]

\* A message of the work queue as apply_async publishes it: the task's
\* arguments and request.retries.
Message(task_id, data, retries) ==
    [task_id |-> task_id, data |-> data, retries |-> retries]

Init ==
    /\ tasks = [t \in TaskIds |-> NoRow]
    /\ now = [t \in TaskIds |-> 0]
    /\ queue = EmptyBag
    /\ running = EmptyBag
    /\ api = ApiIdle
    /\ response = NoResponse
    /\ allocated = {}
    /\ returned = {}
    /\ attempts = [t \in TaskIds |-> 0]
    /\ failures = [t \in TaskIds |-> 0]
    /\ outcome = [t \in TaskIds |-> "none"]
    /\ redeliveries = 0

(* --------------------------- POST /process ----------------------------- *)

\* uuid.uuid4(): an id no earlier call returned. Ids are numbered in the order
\* in which they are drawn.
uuid4 == {t \in TaskIds : tasks[t] = NoRow /\ \A u \in 1..(t - 1) : tasks[u] # NoRow}

\* process_task that publishes the message before it creates the row.
SubmitCreateAfterDelay(task_id, data) ==
    /\ queue' = Put(queue, Message(task_id, data, 0))
    /\ api' = api \cup {[pc |-> "create", task_id |-> task_id, data |-> data]}
    /\ response' = NoResponse
    /\ allocated' = allocated \cup {task_id}
    /\ UNCHANGED <<tasks, now, running, returned, attempts, failures, outcome, redeliveries>>

\* process_task, first half: task_id = str(uuid.uuid4()); create_task(task_id).
\* Handlers run side by side: another one may be in flight.
SubmitCreate(task_id, data) ==
    /\ tasks' = create_task(tasks, task_id, now[task_id])
    /\ now' = [now EXCEPT ![task_id] = @ + 1]
    /\ api' = api \cup {[pc |-> "delay", task_id |-> task_id, data |-> data]}
    /\ response' = NoResponse
    /\ allocated' = allocated \cup {task_id}
    /\ UNCHANGED <<queue, running, returned, attempts, failures, outcome, redeliveries>>

\* process_task when create_task raises because the store is down: no row, no
\* message.
SubmitCreateRaises ==
    /\ uuid4 # {}
    /\ response' = ServerError
    /\ UNCHANGED <<tasks, now, queue, running, api, history>>

\* process_task that waits for the task's outcome before it answers, as with
\* heavy_computation_task.delay(task_id, data).get().
SubmitEnqueueAndWait(h) ==
    /\ h \in api
    /\ \/ /\ h.pc = "delay"
          /\ queue' = Put(queue, Message(h.task_id, h.data, 0))
          /\ api' = (api \ {h}) \cup {[h EXCEPT !.pc = "get"]}
          /\ response' = NoResponse
          /\ UNCHANGED <<tasks, now, running, history>>
       \/ /\ h.pc = "get"
          /\ tasks[h.task_id].status \in TERMINAL
          /\ response' = TaskResponse(h.task_id)
          /\ returned' = returned \cup {h.task_id}
          /\ api' = api \ {h}
          /\ UNCHANGED <<tasks, now, queue, running, allocated, attempts, failures, outcome, redeliveries>>

\* process_task, second half: heavy_computation_task.delay(task_id, data) and
\* the TaskResponse.
SubmitEnqueue(h) ==
    /\ h \in api
    /\ h.pc = "delay"
    /\ queue' = Put(queue, Message(h.task_id, h.data, 0))
    /\ response' = TaskResponse(h.task_id)
    /\ returned' = returned \cup {h.task_id}
    /\ api' = api \ {h}
    /\ UNCHANGED <<tasks, now, running, allocated, attempts, failures, outcome, redeliveries>>

\* process_task when delay raises because the broker is down: the row stays.
SubmitEnqueueRaises(h) ==
    /\ h \in api
    /\ h.pc = "delay"
    /\ response' = ServerError
    /\ api' = api \ {h}
    /\ UNCHANGED <<tasks, now, queue, running, history>>

(* ------------------------ GET /results/{task_id} ----------------------- *)

\* get_task_status when get_task answers.
Query(task_id) ==
    /\ response' = get_task_status(tasks, task_id)
    /\ UNCHANGED <<tasks, now, queue, running, api, history>>

\* get_task_status when get_task raises because the store is down.
QueryRaises(task_id) ==
    /\ response' = QueryServerError(task_id)
    /\ UNCHANGED <<tasks, now, queue, running, api, history>>

(* ----------------------- heavy_computation_task ------------------------ *)

\* The invocation a, moved into its except block with exc bound.
Except(a, exc) == [a EXCEPT !.pc = "except", !.exc = Some(exc)]

\* A worker that writes status in_progress to the row when it takes the message.
DequeueClaims(m) ==
    /\ BagCardinality(running) < NumWorkers
    /\ BagIn(m, queue)
    /\ queue' = Take(queue, m)
    /\ running' = Put(running,
          [pc |-> "try", task_id |-> m.task_id, data |-> m.data,
           retries |-> m.retries, exc |-> NULL])
    /\ tasks' = [tasks EXCEPT ![m.task_id].status = "in_progress"]
    /\ attempts' = [attempts EXCEPT ![m.task_id] = @ + 1]
    /\ response' = NoResponse
    /\ UNCHANGED <<now, api, allocated, returned, failures, outcome, redeliveries>>

\* A free worker of the pool takes a message and calls the task function.
Dequeue(m) ==
    /\ BagCardinality(running) < NumWorkers
    /\ BagIn(m, queue)
    /\ queue' = Take(queue, m)
    /\ running' = Put(running,
          [pc |-> "try", task_id |-> m.task_id, data |-> m.data,
           retries |-> m.retries, exc |-> NULL])
    /\ attempts' = [attempts EXCEPT ![m.task_id] = @ + 1]
    /\ response' = NoResponse
    /\ UNCHANGED <<tasks, now, api, allocated, returned, failures, outcome, redeliveries>>

\* The try block when nothing raises: the progress loop, whose update_state
\* calls write to the result backend only, the sum, save_result(task_id,
\* result) and the return.
SaveResult(a) ==
    /\ BagIn(a, running)
    /\ a.pc = "try"
    /\ \E h \in HashVals :
          tasks' = save_result(tasks, a.task_id, ComputeResult(a.data, h), now[a.task_id])
    /\ now' = [now EXCEPT ![a.task_id] = @ + 1]
    /\ running' = Take(running, a)
    /\ outcome' = [outcome EXCEPT ![a.task_id] = "return"]
    /\ response' = NoResponse
    /\ UNCHANGED <<queue, api, allocated, returned, attempts, failures, redeliveries>>

\* An update_state call of the progress loop raises: control enters except.
ComputeRaises(a) ==
    /\ BagIn(a, running)
    /\ a.pc = "try"
    /\ running' = Put(Take(running, a), Except(a, ProgressError))
    /\ failures' = [failures EXCEPT ![a.task_id] = @ + 1]
    /\ response' = NoResponse
    /\ UNCHANGED <<tasks, now, queue, api, allocated, returned, attempts, outcome, redeliveries>>

\* heavy_computation_task that catches the error of save_result around the
\* call and returns its dict all the same.
SaveResultRaisesSwallowed(a) ==
    /\ BagIn(a, running)
    /\ a.pc = "try"
    /\ running' = Take(running, a)
    /\ outcome' = [outcome EXCEPT ![a.task_id] = "return"]
    /\ response' = NoResponse
    /\ UNCHANGED <<tasks, now, queue, api, allocated, returned, attempts, failures, redeliveries>>

\* save_result raises because the store refuses the write: the transaction is
\* rolled back and control enters except.
SaveResultRaises(a) ==
    /\ BagIn(a, running)
    /\ a.pc = "try"
    /\ running' = Put(Take(running, a), Except(a, StoreError))
    /\ failures' = [failures EXCEPT ![a.task_id] = @ + 1]
    /\ response' = NoResponse
    /\ UNCHANGED <<tasks, now, queue, api, allocated, returned, attempts, outcome, redeliveries>>

\* except: error_message = str(exc); mark_task_failed(task_id, error_message).
MarkFailed(a) ==
    /\ BagIn(a, running)
    /\ a.pc = "except"
    /\ tasks' = mark_task_failed(tasks, a.task_id, a.exc[1], now[a.task_id])
    /\ now' = [now EXCEPT ![a.task_id] = @ + 1]
    /\ running' = Put(Take(running, a), [a EXCEPT !.pc = "retry"])
    /\ response' = NoResponse
    /\ UNCHANGED <<queue, api, history>>

\* mark_task_failed raises because the store is down: the exception leaves the
\* task function, self.retry is not reached.
MarkFailedRaises(a) ==
    /\ BagIn(a, running)
    /\ a.pc = "except"
    /\ running' = Take(running, a)
    /\ outcome' = [outcome EXCEPT ![a.task_id] = "raise"]
    /\ response' = NoResponse
    /\ UNCHANGED <<tasks, now, queue, api, allocated, returned, attempts, failures, redeliveries>>

\* Task.retry that compares with <= : one retry more.
RetryPublishesOneMore(retries) == retries <= max_retries

\* Celery's Task.retry: with request.retries below max_retries it publishes
\* the task again with retries + 1 and raises Retry; otherwise it raises exc.
RetryPublishes(retries) == retries < max_retries

\* raise self.retry(exc=exc, countdown=60, max_retries=3).
Retry(a) ==
    /\ BagIn(a, running)
    /\ a.pc = "retry"
    /\ \/ /\ RetryPublishes(a.retries)
          /\ queue' = Put(queue, Message(a.task_id, a.data, a.retries + 1))
          /\ outcome' = [outcome EXCEPT ![a.task_id] = "Retry"]
       \/ /\ ~RetryPublishes(a.retries)
          /\ outcome' = [outcome EXCEPT ![a.task_id] = "raise"]
          /\ UNCHANGED queue
    /\ running' = Take(running, a)
    /\ response' = NoResponse
    /\ UNCHANGED <<tasks, now, api, allocated, returned, attempts, failures, redeliveries>>

\* self.retry raises because the broker is down: nothing is published.
RetryRaises(a) ==
    /\ BagIn(a, running)
    /\ a.pc = "retry"
    /\ RetryPublishes(a.retries)
    /\ running' = Take(running, a)
    /\ outcome' = [outcome EXCEPT ![a.task_id] = "raise"]
    /\ response' = NoResponse
    /\ UNCHANGED <<tasks, now, queue, api, allocated, returned, attempts, failures, redeliveries>>

(* ------------------------------ the broker ----------------------------- *)

\* At-least-once delivery: the broker delivers the message of an invocation
\* that has not ended a second time, while the first delivery keeps running.
Redeliver(a) ==
    /\ BagIn(a, running)
    /\ redeliveries < MaxRedeliveries
    /\ queue' = Put(queue, Message(a.task_id, a.data, a.retries))
    /\ redeliveries' = redeliveries + 1
    /\ response' = NoResponse
    /\ UNCHANGED <<tasks, now, running, api, allocated, returned, attempts, failures, outcome>>

(* --------------------------- specifications ---------------------------- *)

\* The steps of POST /process.
Submit ==
    \/ \E task_id \in uuid4, data \in DataVals : SubmitCreate(task_id, data)
    \/ \E h \in api : SubmitEnqueue(h)

\* The steps of the gateway when the store and the broker answer.
Gateway ==
    \/ Submit
    \/ \E task_id \in TaskIds : Query(task_id)

\* The steps of the workers, an attempt that raises in its try block included.
Work ==
    \/ \E m \in Messages : Dequeue(m)
    \/ \E a \in Invocations : SaveResult(a)
    \/ \E a \in Invocations : ComputeRaises(a)
    \/ \E a \in Invocations : SaveResultRaises(a)
    \/ \E a \in Invocations : MarkFailed(a)
    \/ \E a \in Invocations : Retry(a)

\* The steps in which the infrastructure fails under a handler of POST
\* /process: the store refuses create_task, the broker refuses the publish.
SubmitOutage ==
    \/ SubmitCreateRaises
    \/ \E h \in api : SubmitEnqueueRaises(h)

\* The steps in which the infrastructure fails outside a try block: under a
\* handler of POST /process, and under a worker when the store refuses
\* mark_task_failed or the broker refuses the publish of self.retry.
Outage ==
    \/ SubmitOutage
    \/ \E a \in Invocations : MarkFailedRaises(a)
    \/ \E a \in Invocations : RetryRaises(a)

\* Every step that writes to the store, to the queue or to the pool, and
\* every step that fails to. GET /results is left out: it reads the store
\* and writes response only; QuerySpec has it.
Next == Submit \/ Work \/ Outage

Spec == Init /\ [][Next]_vars

\* The whole program: both endpoints of the gateway, the workers, and every
\* step in which the store or the broker fails, a read of the store by GET
\* /results included.
QueryNext ==
    \/ Gateway
    \/ Work
    \/ Outage
    \/ \E task_id \in TaskIds : QueryRaises(task_id)

QuerySpec == Init /\ [][QueryNext]_vars

\* The program while the broker accepts every publish and the store accepts
\* every mark_task_failed. A started handler runs to its end, the broker
\* delivers every message to a worker, and a worker runs the task function to
\* its end. Query is left out: it reads the store and writes response only,
\* which no progress property reads.
LiveNext == Submit \/ Work

Fairness ==
    /\ \A t \in TaskIds : WF_vars(\E h \in api : h.task_id = t /\ SubmitEnqueue(h))
    /\ WF_vars(\E m \in Messages : Dequeue(m))
    /\ WF_vars(\E a \in Invocations : SaveResult(a) \/ ComputeRaises(a) \/ SaveResultRaises(a))
    /\ WF_vars(\E a \in Invocations : MarkFailed(a))
    /\ WF_vars(\E a \in Invocations : Retry(a))

LiveSpec == Init /\ [][LiveNext]_vars /\ Fairness

\* The program when only the handler of POST /process is sure to go on: a
\* worker may stop anywhere, and may never take a message at all.
SubmitSpec ==
    /\ Init
    /\ [][LiveNext]_vars
    /\ \A t \in TaskIds : WF_vars(\E h \in api : h.task_id = t /\ SubmitEnqueue(h))

\* The program on a broker that delivers at least once: the steps of
\* LiveNext, and redeliveries.
Redelivery == \E a \in Invocations : Redeliver(a)

DupNext == Submit \/ Work \/ Redelivery

DupSpec == Init /\ [][DupNext]_vars

(* ------------------------------- claims -------------------------------- *)

HasRow(t) == tasks[t] # NoRow

Terminal(t) == HasRow(t) /\ tasks[t].status \in TERMINAL

Queued(t) == \E m \in Messages : m.task_id = t

Executing(t) == \E a \in Invocations : a.task_id = t

\* A message of t waits in the queue, or an invocation for t is in its try
\* block, or one is on its way to a self.retry that publishes.
WillRunAgain(t) ==
    \/ Queued(t)
    \/ \E a \in Invocations : a.task_id = t /\ (a.pc = "try" \/ RetryPublishes(a.retries))

\* C1: once a row's status is completed or failed, no later step changes the
\* row: status, result, error_message and completed_at keep the values of the
\* first terminal write.
C1_TerminalRowFrozen ==
    [][\A t \in TaskIds : Terminal(t) => tasks'[t] = tasks[t]]_vars

\* C2: whenever a row's status is failed, no further attempt of the task is
\* queued, running, or about to be published by self.retry.
C2_FailedOnlyWhenExhausted ==
    \A t \in TaskIds :
        (HasRow(t) /\ tasks[t].status = "failed") => ~WillRunAgain(t)

\* The TaskStatusResponse of a row that was created and never written since.
FreshStatus(t) ==
    [request |-> t, code |-> 200, task_id |-> t, status |-> "pending",
     result |-> NULL, error_message |-> NULL,
     created_at |-> tasks[t].created_at, completed_at |-> NULL]

\* C3: a Query for a task Submit has returned, answered by the store before
\* any worker took the task's message, returns the row with status pending
\* and result, error_message and completed_at null. (A Query whose read of
\* the store raises returns no record: it answers 500.)
C3_QueryAfterSubmitIsPending ==
    \A t \in returned :
        (attempts[t] = 0 /\ response.request = t /\ response # QueryServerError(t)) =>
            response = FreshStatus(t)

C3_Witness ==
    \E t \in returned :
        /\ attempts[t] = 0
        /\ response.request = t
        /\ response.code = 200
        /\ response.status = "pending"

\* C4 as stated: a Query for an id that no Submit has returned answers 404.
C4_NotReturnedIsNotFound ==
    \A t \in TaskIds \ returned : response.request = t => response.code = 404

\* C4, amended: a Query for an id for which no Submit has created a row
\* answers 404 "Task not found", or 500 when its read of the store raises,
\* and the step leaves the store as it was.
C4_NotAllocatedIsNotFound ==
    [][\A t \in TaskIds \ allocated :
          response'.request = t =>
              /\ \/ response' = [request |-> t, code |-> 404, detail |-> "Task not found"]
                 \/ response' = QueryServerError(t)
              /\ tasks' = tasks]_vars

C4_Witness ==
    \E t \in TaskIds \ allocated :
        /\ response.request = t
        /\ response.code = 404
        /\ allocated # {}

\* C5: with the broker and the store answering, every task that has a row
\* eventually has a terminal status and keeps a terminal status from then on.
C5_EventuallyTerminal ==
    \A t \in TaskIds : [](HasRow(t) => <>[]Terminal(t))

C5_Witness ==
    \E t \in TaskIds : Terminal(t) /\ ~Queued(t) /\ ~Executing(t) /\ attempts[t] > 1

\* The step ends the invocation a: a leaves the pool and nothing takes its place.
Ends(a) ==
    /\ CopiesIn(a, running') < CopiesIn(a, running)
    /\ BagCardinality(running') < BagCardinality(running)

\* Every attempt the retry policy allows has run and failed, and the last
\* invocation has ended.
Exhausted(t) == failures[t] = max_retries + 1 /\ ~Executing(t)

FailedForGood(t) ==
    /\ HasRow(t)
    /\ tasks[t].status = "failed"
    /\ tasks[t].error_message # NULL
    /\ tasks[t].completed_at # NULL
    /\ tasks[t].result = NULL
    /\ ~Queued(t)
    /\ ~Executing(t)

\* C6: a task whose attempts all fail, the first run and every retry, ends
\* with status failed, the error of its last attempt as error_message,
\* completed_at set, result null and nothing left to run, and its row never
\* changes afterwards.
C6_ExhaustedIsFailedForGood ==
    /\ \A t \in TaskIds : (failures[t] = max_retries + 1) ~> Exhausted(t)
    /\ [](\A t \in TaskIds : Exhausted(t) => FailedForGood(t))
    /\ [][\A a \in Invocations :
             a.pc = "retry" /\ a.retries = max_retries /\ Ends(a)
                 => tasks'[a.task_id].error_message = a.exc]_vars
    /\ [][\A t \in TaskIds : Exhausted(t) => tasks'[t] = tasks[t]]_vars

C6_Witness ==
    \E t \in TaskIds :
        /\ Exhausted(t)
        /\ FailedForGood(t)
        /\ tasks[t].error_message = Some(StoreError)

\* The invocation a leaves its try block by the return, in this step.
Returns(a) == a.pc = "try" /\ BagIn(a, running) /\ running' = Take(running, a)

\* C7: when a retry of a task whose earlier attempts failed succeeds, the row
\* has status completed and a result, more than one attempt has run, and a
\* completed row never changes afterwards.
C7_RetrySuccessCompletes ==
    /\ [][\A a \in Invocations :
            (a.retries > 0 /\ failures[a.task_id] > 0 /\ Returns(a)) =>
                /\ tasks'[a.task_id].status = "completed"
                /\ tasks'[a.task_id].result # NULL
                /\ attempts[a.task_id] > 1]_vars
    /\ [][\A t \in TaskIds :
            (HasRow(t) /\ tasks[t].status = "completed") => tasks'[t] = tasks[t]]_vars

C7_Witness ==
    \E t \in TaskIds :
        /\ HasRow(t)
        /\ tasks[t].status = "completed"
        /\ tasks[t].result # NULL
        /\ failures[t] > 0
        /\ attempts[t] > 1

\* C8 as stated: no task has more attempts than the configured number, 3.
C8_AttemptsAtMostThree ==
    \A t \in TaskIds : attempts[t] <= max_retries

\* C8, amended: no task has more than 1 + max_retries = 4 attempts, the
\* first run and max_retries retries.
C8_AttemptsAtMostOnePlusRetries ==
    \A t \in TaskIds : attempts[t] <= 1 + max_retries

C8_Witness ==
    \E t \in TaskIds : attempts[t] = 1 + max_retries

\* C9: a terminal row has exactly one of result and error_message set; a row
\* that is not terminal has neither.
C9_ExactlyOneOutcome ==
    \A t \in TaskIds :
        HasRow(t) =>
            IF tasks[t].status \in TERMINAL
            THEN (tasks[t].result # NULL) # (tasks[t].error_message # NULL)
            ELSE tasks[t].result = NULL /\ tasks[t].error_message = NULL

\* C10: completed_at is set exactly in the rows whose status is completed or
\* failed.
C10_CompletedAtIffTerminal ==
    \A t \in TaskIds :
        HasRow(t) => (tasks[t].completed_at # NULL <=> tasks[t].status \in TERMINAL)

C10_Witness ==
    /\ \E t \in TaskIds : HasRow(t) /\ tasks[t].status = "failed" /\ tasks[t].completed_at # NULL
    /\ \E t \in TaskIds : HasRow(t) /\ tasks[t].status = "pending" /\ tasks[t].completed_at = NULL

\* C11: in every state, also while several workers execute invocations for
\* the same task id, a completed row has a result and a completed_at, and a
\* failed row has an error_message and a completed_at.
C11_TerminalRowsWhole ==
    \A t \in TaskIds :
        HasRow(t) =>
            /\ tasks[t].status = "completed" =>
                  tasks[t].result # NULL /\ tasks[t].completed_at # NULL
            /\ tasks[t].status = "failed" =>
                  tasks[t].error_message # NULL /\ tasks[t].completed_at # NULL

\* Two workers execute invocations for one task, one of them past its
\* mark_task_failed, and the row is failed.
C11_Witness ==
    \E t \in TaskIds :
        /\ HasRow(t)
        /\ tasks[t].status = "failed"
        /\ \E a, b \in Invocations :
              a.task_id = t /\ b.task_id = t /\ a.pc = "retry" /\ b.pc = "try"

\* C12: process_task does not wait for a worker. Once the row is created the
\* handler's delay-and-return step is enabled whatever the workers do, and
\* the handler returns the task id in every behaviour in which the handler
\* itself goes on, those in which no worker ever takes a message included.
C12_SubmitNeedsNoWorker ==
    /\ [](\A h \in api : ENABLED SubmitEnqueue(h))
    /\ \A t \in TaskIds :
          (\E h \in api : h.task_id = t) ~> (t \in returned /\ \A h \in api : h.task_id # t)

\* Every submission has returned and no worker has taken a message yet.
C12_Witness ==
    /\ returned = TaskIds
    /\ api = ApiIdle
    /\ running = EmptyBag
    /\ \A t \in TaskIds : attempts[t] = 0 /\ Queued(t)

\* C13: on a broker that delivers at least once, once a row's status is
\* completed no later write changes the outcome: the status stays completed,
\* and result and completed_at keep their values.
C13_CompletedSurvivesRedelivery ==
    [][\A t \in TaskIds :
          (HasRow(t) /\ tasks[t].status = "completed") =>
              /\ tasks'[t].status = "completed"
              /\ tasks'[t].result = tasks[t].result
              /\ tasks'[t].completed_at = tasks[t].completed_at]_vars

\* C14 as stated: whenever a worker executes an invocation for a task the
\* stored status is in_progress, and a status becomes completed or failed
\* only from in_progress.
C14_InProgressWhileExecuting ==
    [][/\ \A a \in Invocations' : tasks'[a.task_id].status = "in_progress"
       /\ \A t \in TaskIds :
             (HasRow(t) /\ ~Terminal(t) /\ Terminal(t)') => tasks[t].status = "in_progress"]_vars

\* C14: the stored status is one of pending, completed and failed; it is
\* pending while the first invocation for the task is in its try block; a
\* non-terminal status that changes becomes completed or failed directly from
\* pending; and a completed or failed row never returns to a non-terminal
\* status.
C14_PendingThenTerminal ==
    [][/\ \A t \in TaskIds :
             HasRow(t)' => tasks'[t].status \in {"pending", "completed", "failed"}
       /\ \A a \in Invocations' :
             (a.retries = 0 /\ a.pc = "try") => tasks'[a.task_id].status = "pending"
       /\ \A t \in TaskIds :
             (HasRow(t) /\ ~Terminal(t) /\ Terminal(t)') => tasks[t].status = "pending"
       /\ \A t \in TaskIds : Terminal(t) => Terminal(t)']_vars

\* A worker executes the first invocation for a task and the stored status is
\* pending, while another task went from pending to failed and then to
\* completed.
C14_Witness ==
    /\ \E a \in Invocations :
          a.retries = 0 /\ a.pc = "try" /\ tasks[a.task_id].status = "pending"
    /\ \E t \in TaskIds :
          HasRow(t) /\ tasks[t].status = "completed" /\ tasks[t].error_message # NULL

\* C15: a progress update that raises does not change the outcome of the
\* task: no row is ever failed with the error of an update_state call, and no
\* invocation handles such an error as a failure of the attempt.
C15_ProgressIsAdvisory ==
    /\ \A t \in TaskIds :
          HasRow(t) =>
              ~(tasks[t].status = "failed" /\ tasks[t].error_message = Some(ProgressError))
    /\ \A a \in Invocations : a.pc = "retry" => a.exc # Some(ProgressError)

\* C16: a store write that raises is not swallowed. An invocation leaves its
\* try block by return only in the step in which save_result wrote the row;
\* when save_result raises the row is not written and the invocation goes on
\* in its except block, where mark_task_failed records the error and
\* self.retry ends the invocation by an exception, publishing the retry when
\* it raises Retry; and an invocation that ends inside its except block,
\* because mark_task_failed raised, ends by an exception with the row and the
\* queue untouched.
C16_StoreFailureSurfaces ==
    [][\A a \in Invocations :
          LET t == a.task_id IN
          /\ (a.pc = "try" /\ Ends(a)) =>
                /\ outcome'[t] = "return"
                /\ tasks'[t].status = "completed"
                /\ tasks'[t].completed_at = Some(now[t])
          /\ (a.pc = "try" /\ CopiesIn(a, running') < CopiesIn(a, running)
                /\ CopiesIn(Except(a, StoreError), running') > CopiesIn(Except(a, StoreError), running)) =>
                tasks' = tasks /\ outcome' = outcome
          /\ (a.pc = "except" /\ a.exc = Some(StoreError) /\ ~Ends(a)
                /\ CopiesIn(a, running') < CopiesIn(a, running)) =>
                /\ BagIn([a EXCEPT !.pc = "retry"], running')
                /\ tasks'[t].status = "failed"
                /\ tasks'[t].error_message = Some(StoreError)
          /\ (a.pc = "retry" /\ Ends(a)) =>
                /\ outcome'[t] \in {"Retry", "raise"}
                /\ outcome'[t] = "Retry" => BagIn(Message(t, a.data, a.retries + 1), queue')
          /\ (a.pc = "except" /\ Ends(a)) =>
                outcome'[t] = "raise" /\ tasks' = tasks /\ queue' = queue]_vars

\* One task whose save_result raised was marked failed with the store's error
\* and retried; for another the mark_task_failed after a save_result that
\* raised has raised too: the invocation ended by an exception and the row is
\* still pending.
C16_Witness ==
    /\ \E t \in TaskIds :
          /\ HasRow(t)
          /\ tasks[t].status = "failed"
          /\ tasks[t].error_message = Some(StoreError)
          /\ outcome[t] = "Retry"
    /\ \E u \in TaskIds :
          /\ HasRow(u)
          /\ tasks[u].status = "pending"
          /\ failures[u] > 0
          /\ ~Executing(u)
          /\ outcome[u] = "raise"

\* C17: no step deletes a row or changes the task_id or the created_at that
\* create_task gave it, however many save_result and mark_task_failed calls
\* write the row.
C17_IdAndCreatedAtFrozen ==
    [][\A t \in TaskIds :
          HasRow(t) =>
              /\ HasRow(t)'
              /\ tasks'[t].task_id = tasks[t].task_id
              /\ tasks'[t].created_at = tasks[t].created_at]_vars

\* A row that both mark_task_failed and save_result have written, the former
\* at least twice, still has the task_id and the created_at of its creation.
C17_Witness ==
    \E t \in TaskIds :
        /\ HasRow(t)
        /\ failures[t] >= 2
        /\ tasks[t].status = "completed"
        /\ tasks[t].error_message # NULL
        /\ tasks[t].task_id = t
        /\ tasks[t].created_at = Some(0)
        /\ now[t] >= 4

\* C18: the row is created before the message is published: every message in
\* the queue and every invocation a worker executes names a task id whose row
\* exists.
C18_MessagesHaveRows ==
    /\ \A m \in Messages : HasRow(m.task_id)
    /\ \A a \in Invocations : HasRow(a.task_id)

\* A message waits in the queue while a worker executes an invocation for
\* another task.
C18_Witness ==
    \E m \in Messages : \E a \in Invocations :
        m.task_id # a.task_id /\ HasRow(m.task_id) /\ HasRow(a.task_id)

\* C19: no task is orphaned. Once process_task has returned the id, a task
\* whose row is not completed and whose invocations number fewer than
\* 1 + max_retries has a message in the queue or an invocation in execution.
C19_NoOrphan ==
    \A t \in returned :
        (tasks[t].status # "completed" /\ attempts[t] < 1 + max_retries) =>
            Queued(t) \/ Executing(t)

====
